---------------------------- MODULE Spec2Model ----------------------------
(***************************************************************************)
(* A model of import_offers.py (CBS1 offer importer).                      *)
(*                                                                         *)
(* The program is a batch of pure extractors plus one loop that writes a   *)
(* worksheet.  Each part is modelled with variables of its own and has a   *)
(* specification of its own:                                               *)
(*                                                                         *)
(*   SpecAnchor    the section anchor search over a page's glyphs          *)
(*   SpecCheckbox  detect_checked_box_at_y and label_after_checkbox        *)
(*   SpecParse     the text extractors and the dict parse_contract builds  *)
(*   SpecCache     the raster caches over a sequence of document parses    *)
(*   SpecBatch     main's loop over the documents and the worksheet        *)
(*   SpecLabel     the dropdown mapping of a checkbox label                *)
(*   SpecRun       calls of parse_contract one after the other             *)
(*                                                                         *)
(* Text is a sequence of one-character strings (glyph texts, labels) or a  *)
(* sequence of tokens (document text); coordinates are integers.           *)
(***************************************************************************)
EXTENDS Integers, Sequences, FiniteSets, TLC

VARIABLES
    \* --- section anchor search
    chars,          \* page.chars: the page's glyphs, in sequence order
    anchor,         \* the result of the last anchor search
    \* --- checkbox detection
    options_y,      \* the y of the options line handed to the detection
    all_checkboxes, \* the page's checkbox images, in page.images order
    detected,       \* the result of detect_checked_box_at_y
    \* --- text extraction
    doc_text,       \* the document text, as segments
    parsed,         \* what parse_contract computed and returned
    \* --- raster caches
    cparse,         \* how many times parse_contract has been entered
    cdoc,           \* the document of the current parse
    cstep,          \* 0 outside parse_contract, else the next checkbox query
    page_ids,       \* id(page) of each page of the open document
    caches,         \* the dict of parse_contract and the three default dicts
    renders,        \* page.to_image calls per page in the current parse
    touches,        \* cache lookups per page in the current parse (up to 2)
    reads,          \* the rasters the last query got from its cache
    prev,           \* document and rendered page ids of the parse before
    \* --- batch run
    pdfs,           \* the documents of the folder, sorted
    bi,             \* the loop index of main, from 1
    bpc,            \* "start", "loop" or "done"
    ws,             \* the worksheet
    errors,         \* the error list of main
    saved,          \* wb.save has been called
    log,            \* the documents attempted so far, with their outcome
    ws0,            \* the worksheet before the document attempted last
    template,       \* the worksheet as it was loaded
    \* --- dropdown mapping
    label_text,     \* the glyph texts right of the checked box
    label_words,    \* how many words they were made of
    dropdown,       \* the result of the mapping
    \* --- repeated parses
    live_dicts,     \* the dict of parse_contract and the three default dicts
    records,        \* the FieldRecords returned, with their documents
    runs            \* the calls so far: document, page ids, outcome

anchorVars == <<chars, anchor>>
boxVars    == <<options_y, all_checkboxes, detected>>
parseVars  == <<doc_text, parsed>>
cacheVars  == <<cparse, cdoc, cstep, page_ids, caches, renders, touches, reads, prev>>
batchVars  == <<pdfs, bi, bpc, ws, errors, saved, log, ws0, template>>
labelVars  == <<label_text, label_words, dropdown>>
runVars    == <<live_dicts, records, runs>>
vars       == <<anchorVars, boxVars, parseVars, cacheVars, batchVars, labelVars, runVars>>

(***************************************************************************)
(* Python helpers.                                                         *)
(***************************************************************************)
Min2(a, b) == IF a <= b THEN a ELSE b
Max2(a, b) == IF a >= b THEN a ELSE b
Abs(a)     == IF a < 0 THEN -a ELSE a

\* s[a:b] of a Python sequence (0-based, end exclusive, clamped)
PySlice(s, a, b) == SubSeq(s, Max2(a, 0) + 1, Min2(b, Len(s)))

\* s.startswith(p)
StartsWith(s, p) == Len(p) <= Len(s) /\ SubSeq(s, 1, Len(p)) = p

\* p in s, for strings
RECURSIVE ContainsAt(_, _, _)
ContainsAt(s, p, k) ==
    IF k + Len(p) - 1 > Len(s) THEN FALSE
    ELSE IF SubSeq(s, k, k + Len(p) - 1) = p THEN TRUE
    ELSE ContainsAt(s, p, k + 1)
Contains(s, p) == ContainsAt(s, p, 1)

\* ''.join(c['text'] for c in glyphs): every glyph text is one character
JoinText(glyphs) == [k \in 1..Len(glyphs) |-> glyphs[k].text]

SECT   == "§"
Digits == {"0", "1", "2", "3", "4", "5", "6", "7", "8", "9"}

(***************************************************************************)
(* Section anchor search: find_section_anchor_y and the copy of it that is *)
(* inlined in get_fee_value.                                               *)
(***************************************************************************)
LEFT_MARGIN == 150

\* .replace('.', '').replace(' ', '')
StripDotsSpaces(s) == SelectSeq(s, LAMBDA c : c \notin {".", " "})

\* a variant that looks at the one glyph before the candidate only
AnchorAcceptsPrevOne(target, cs, i) ==
    /\ cs[i].text \in Digits
    /\ ~(cs[i].x0 > LEFT_MARGIN)
    /\ StartsWith(StripDotsSpaces(JoinText(PySlice(cs, i - 1, i - 1 + 10))),
                  SubSeq(target, 1, Min2(4, Len(target))))
    /\ SECT \notin {g.text : g \in {PySlice(cs, i - 1 - 1, i - 1)[k] :
                                     k \in 1..Len(PySlice(cs, i - 1 - 1, i - 1))}}

\* the glyph at 1-based position i passes every test of the loop body
AnchorAccepts(target, cs, i) ==
    /\ cs[i].text \in Digits
    /\ ~(cs[i].x0 > LEFT_MARGIN)
    /\ StartsWith(StripDotsSpaces(JoinText(PySlice(cs, i - 1, i - 1 + 10))),
                  SubSeq(target, 1, Min2(4, Len(target))))
    /\ SECT \notin {g.text : g \in {PySlice(cs, i - 1 - 4, i - 1)[k] :
                                     k \in 1..Len(PySlice(cs, i - 1 - 4, i - 1))}}

\* the loop: the first accepted position from i on, 0 when there is none
RECURSIVE AnchorScan(_, _, _)
AnchorScan(target, cs, i) ==
    IF i > Len(cs) THEN 0
    ELSE IF AnchorAccepts(target, cs, i) THEN i
    ELSE AnchorScan(target, cs, i + 1)

\* find_section_anchor_y(section_id, chars), with the position it stopped at
find_section_anchor_y(section_id, cs) ==
    LET idx == AnchorScan(StripDotsSpaces(section_id), cs, 1)
    IN  [done |-> TRUE, via |-> "find_section_anchor_y", found |-> idx # 0,
         idx |-> idx, y |-> IF idx # 0 THEN cs[idx].y0 ELSE 0]

\* the same tests, as get_fee_value writes them out for itself
FeeAnchorAccepts(target, cs, i) ==
    /\ cs[i].text \in Digits
    /\ ~(cs[i].x0 > LEFT_MARGIN)
    /\ StartsWith(StripDotsSpaces(JoinText(PySlice(cs, i - 1, i - 1 + 10))),
                  SubSeq(target, 1, Min2(4, Len(target))))
    /\ \A k \in 1..Len(PySlice(cs, i - 1 - 4, i - 1)) :
           PySlice(cs, i - 1 - 4, i - 1)[k].text # SECT

RECURSIVE FeeAnchorScan(_, _, _)
FeeAnchorScan(target, cs, i) ==
    IF i > Len(cs) THEN 0
    ELSE IF FeeAnchorAccepts(target, cs, i) THEN i
    ELSE FeeAnchorScan(target, cs, i + 1)

get_fee_value_anchor(section_id, cs) ==
    LET idx == FeeAnchorScan(StripDotsSpaces(section_id), cs, 1)
    IN  [done |-> TRUE, via |-> "get_fee_value", found |-> idx # 0,
         idx |-> idx, y |-> IF idx # 0 THEN cs[idx].y0 ELSE 0]

\* --- the pages the search is run on
MaxTokens == 4      \* tokens on the page

\* every token sits on a line of its own: y0 of the line of token n + 1
TokenLineY(n) == 700 - 12 * n
\* x0 of the glyphs that are not digits (the search never reads it)
GutterXs == {60}

SectionId == <<"1", "6", ".", "2", ".">>     \* '16.2.'

\* x0 of a token's first glyph: flush left, on the margin, just right of it
AnchorXs == {72, LEFT_MARGIN, LEFT_MARGIN + 1}

TokenText(kind) ==
    CASE kind = "num"  -> <<"1", "6", ".", "2">>
      [] kind = "one"  -> <<"1">>
      [] kind = "sect" -> <<SECT>>
      [] kind = "sp"   -> <<" ">>
      [] kind = "word" -> <<"x">>

TokenGlyphs(kind, x, y) ==
    [k \in 1..Len(TokenText(kind)) |->
        [text |-> TokenText(kind)[k], x0 |-> x + 5 * (k - 1), y0 |-> y]]

NoAnchor == [done |-> FALSE, via |-> "", found |-> FALSE, idx |-> 0, y |-> 0]

TokensOn(cs) == Cardinality({cs[k].y0 : k \in 1..Len(cs)})

AppendToken ==
    /\ ~anchor.done
    /\ TokensOn(chars) < MaxTokens
    /\ \E kind \in {"num", "one", "sect", "sp", "word"} :
       \E x \in (IF kind \in {"num", "one"} THEN AnchorXs ELSE GutterXs) :
          chars' = chars \o TokenGlyphs(kind, x, TokenLineY(TokensOn(chars)))
    /\ UNCHANGED <<anchor, boxVars, parseVars, cacheVars, batchVars, labelVars, runVars>>

LocateAnchor ==
    /\ ~anchor.done
    /\ anchor' = find_section_anchor_y(SectionId, chars)
    /\ UNCHANGED <<chars, boxVars, parseVars, cacheVars, batchVars, labelVars, runVars>>

LocateFeeAnchor ==
    /\ ~anchor.done
    /\ anchor' = get_fee_value_anchor(SectionId, chars)
    /\ UNCHANGED <<chars, boxVars, parseVars, cacheVars, batchVars, labelVars, runVars>>

NextAnchor == AppendToken \/ LocateAnchor \/ LocateFeeAnchor

\* --- what the claims about the anchor search speak of
\* a section-number occurrence: a digit from which the text, spaces and
\* periods dropped, reads as the section number
Occurrence(i) ==
    /\ chars[i].text \in Digits
    /\ StartsWith(StripDotsSpaces(JoinText(PySlice(chars, i - 1, i + 9))),
                  StripDotsSpaces(SectionId))
\* a cross-reference: the section symbol is among the 4 glyphs before it
CrossRef(i) ==
    /\ Occurrence(i)
    /\ \E k \in 1..4 : i - k >= 1 /\ chars[i - k].text = SECT
\* a header: an occurrence left of the margin that is no cross-reference
Header(i) ==
    /\ Occurrence(i)
    /\ ~CrossRef(i)
    /\ chars[i].x0 < LEFT_MARGIN

\* C2: an occurrence of the section number that has the section symbol
\* among its 4 preceding glyphs is never the anchor, by either copy of the
\* search; and on a page that holds cross-references and one header (its
\* only other occurrence of the number) the anchor is the header and the
\* y returned is the header's, whether the header comes first or last.
C2_CrossRefRejected ==
    anchor.done =>
        /\ anchor.found => ~CrossRef(anchor.idx)
        /\ \A h \in 1..Len(chars) :
              ( /\ Header(h)
                /\ \E p \in 1..Len(chars) : CrossRef(p)
                /\ \A j \in 1..Len(chars) : Occurrence(j) => (CrossRef(j) \/ j = h) )
              => (anchor.found /\ anchor.idx = h /\ anchor.y = chars[h].y0)

\* a cross-reference at the left margin comes before the header, and the
\* search has returned the header
C2_Witness ==
    /\ anchor.done /\ anchor.found
    /\ Header(anchor.idx)
    /\ \E p \in 1..Len(chars) :
          /\ p < anchor.idx
          /\ CrossRef(p)
          /\ chars[p].x0 < LEFT_MARGIN
          /\ chars[p].y0 # anchor.y

\* C14: the anchor is a decimal digit whose x0 is strictly less than 150; a
\* digit with x0 equal to 150 or greater is never the anchor; and the y
\* returned is that of the first glyph in sequence order that is accepted.
C14_LeftMargin ==
    (anchor.done /\ anchor.found) =>
        /\ chars[anchor.idx].text \in Digits
        /\ chars[anchor.idx].x0 < LEFT_MARGIN
        /\ anchor.y = chars[anchor.idx].y0
        /\ \A k \in 1..(anchor.idx - 1) : ~Header(k)

(***************************************************************************)
(* Checkbox detection: checkbox_brightness, label_after_checkbox,          *)
(* label_to_dropdown and detect_checked_box_at_y.                          *)
(*                                                                         *)
(* A checkbox is a record [x0, y0, x1, y1, pixels, label]: its box, the    *)
(* grey values of the raster under the box, and the word printed after it. *)
(***************************************************************************)
BRIGHTNESS_THRESHOLD == 150
NO_NEXT_CB == 9999
LABEL_MAX_CHARS == 15

RECURSIVE SumSeq(_)
SumSeq(s) == IF s = <<>> THEN 0 ELSE Head(s) + SumSeq(Tail(s))

\* checkbox_brightness: sum(pixels) / len(pixels) if pixels else 255, kept as
\* the fraction num / den
checkbox_brightness(cb) ==
    IF cb.pixels # <<>> THEN [num |-> SumSeq(cb.pixels), den |-> Len(cb.pixels)]
    ELSE [num |-> 255, den |-> 1]

\* a < b and a > n for brightness fractions
BrLess(a, b) == a.num * b.den < b.num * a.den
\* a variant of the test that also rejects a brightness equal to the threshold
BrAboveOrAt(a, n) == a.num >= n * a.den
BrAbove(a, n) == a.num > n * a.den

\* min(seq, key=checkbox_brightness): the first element of least brightness
RECURSIVE MinByBrightness(_, _)
MinByBrightness(cbs, best) ==
    IF cbs = <<>> THEN best
    ELSE MinByBrightness(Tail(cbs),
             IF BrLess(checkbox_brightness(Head(cbs)), checkbox_brightness(best))
             THEN Head(cbs) ELSE best)

\* sorted(glyphs, key=x0): Python's sort is stable
RECURSIVE InsertByX0(_, _)
InsertByX0(sorted, g) ==
    IF sorted = <<>> THEN <<g>>
    ELSE IF g.x0 < Head(sorted).x0 THEN <<g>> \o sorted
    ELSE <<Head(sorted)>> \o InsertByX0(Tail(sorted), g)
RECURSIVE SortByX0(_)
SortByX0(s) ==
    IF s = <<>> THEN <<>>
    ELSE InsertByX0(SortByX0(SubSeq(s, 1, Len(s) - 1)), s[Len(s)])

Whitespace == {" "}
RECURSIVE LStrip(_)
LStrip(s) == IF s # <<>> /\ Head(s) \in Whitespace THEN LStrip(Tail(s)) ELSE s
RECURSIVE RStrip(_)
RStrip(s) ==
    IF s # <<>> /\ s[Len(s)] \in Whitespace THEN RStrip(SubSeq(s, 1, Len(s) - 1)) ELSE s
Strip(s) == LStrip(RStrip(s))

LowerCase == <<"a", "b", "c", "d", "e", "f", "g", "h", "i", "j", "k", "l", "m",
               "n", "o", "p", "q", "r", "s", "t", "u", "v", "w", "x", "y", "z">>
UpperCase == <<"A", "B", "C", "D", "E", "F", "G", "H", "I", "J", "K", "L", "M",
               "N", "O", "P", "Q", "R", "S", "T", "U", "V", "W", "X", "Y", "Z">>
UpperChar(c) ==
    IF \E k \in 1..26 : LowerCase[k] = c
    THEN UpperCase[CHOOSE k \in 1..26 : LowerCase[k] = c] ELSE c
Upper(s) == [k \in 1..Len(s) |-> UpperChar(s[k])]

\* the glyphs label_after_checkbox joins: right of the box, left of the bound,
\* on the box's line, sorted by x0, the first 15
LabelGlyphs(cb_img, cs, next_cb_x) ==
    LET lc == SelectSeq(cs, LAMBDA c :
                  /\ c.x0 >= cb_img.x1 - 1
                  /\ c.x0 < next_cb_x
                  /\ Abs((c.y0 + c.y1) - (cb_img.y0 + cb_img.y1)) < 2 * 4)
    IN  PySlice(SortByX0(lc), 0, LABEL_MAX_CHARS)

label_after_checkbox(cb_img, cs, next_cb_x) ==
    Strip(JoinText(LabelGlyphs(cb_img, cs, next_cb_x)))

\* label_to_dropdown; "None" stands for Python's None
label_to_dropdown(label) ==
    LET u == LStrip(Upper(label))
    IN  IF StartsWith(u, <<"B", "U", "Y", "E", "R">>) THEN "Buyer Pays"
        ELSE IF StartsWith(u, <<"S", "E", "L", "L", "E", "R">>) THEN "Seller Pays"
        ELSE IF Contains(u, <<"O", "N", "E", "-", "H", "A", "L", "F">>)
                \/ StartsWith(u, <<"O", "N", "E">>) THEN "Split 50/50"
        ELSE IF StartsWith(u, <<"N", "/", "A">>) THEN "n/a"
        ELSE "None"

\* the candidates: the boxes at options_y, then those one line above
OptionCbs(oy, cbs) ==
    LET first == SelectSeq(cbs, LAMBDA cb : Abs(cb.y0 - oy) < 8)
        upper_y == oy + 14
    IN  first \o SelectSeq(cbs, LAMBDA cb :
                     /\ Abs(cb.y0 - upper_y) < 6
                     /\ \A k \in 1..Len(first) : first[k] # cb)

\* the boxes the bound is taken over: the candidates on the winner's row
SameY(option_cbs, best_cb) ==
    SelectSeq(option_cbs, LAMBDA cb : Abs(cb.y0 - best_cb.y0) < 3)

\* min((cb['x0'] for cb in same_y if cb['x0'] > best_cb['x1']), default=9999)
NextX(same_y, best_cb) ==
    LET xs == {same_y[k].x0 : k \in {j \in 1..Len(same_y) : same_y[j].x0 > best_cb.x1}}
    IN  IF xs = {} THEN NO_NEXT_CB ELSE CHOOSE x \in xs : \A z \in xs : x <= z

NoBox == [x0 |-> 0, y0 |-> 0, x1 |-> 0, y1 |-> 0, pixels |-> <<>>, label |-> <<>>]

\* a variant that takes the first candidate instead of the darkest
FirstCandidate(option_cbs) == option_cbs[1]
\* best_cb = min(option_cbs, key=...)
BestCb(option_cbs) == MinByBrightness(Tail(option_cbs), Head(option_cbs))

\* detect_checked_box_at_y(page, options_y, all_checkboxes, cache): the value
\* returned, with the winner, the bound and the glyphs of the label read
detect_checked_box_at_y(cs, oy, cbs) ==
    LET option_cbs == OptionCbs(oy, cbs)
        none == [done |-> TRUE, value |-> "n/a", resolved |-> FALSE, best |-> NoBox,
                 bound |-> 0, glyphs |-> <<>>, label |-> <<>>]
    IN  IF option_cbs = <<>> THEN none
        ELSE LET best_cb == BestCb(option_cbs) IN
             IF BrAbove(checkbox_brightness(best_cb), BRIGHTNESS_THRESHOLD) THEN none
             ELSE LET next_x    == NextX(SameY(option_cbs, best_cb), best_cb)
                      raw_label == label_after_checkbox(best_cb, cs, next_x)
                      value     == label_to_dropdown(raw_label)
                  IN  [done |-> TRUE,
                       value |-> IF value # "None" THEN value ELSE "n/a",
                       resolved |-> TRUE, best |-> best_cb, bound |-> next_x,
                       glyphs |-> LabelGlyphs(best_cb, cs, next_x),
                       label |-> raw_label]

\* --- the pages detection is run on
MaxBoxes == 2        \* checkboxes on the page

OptionsYs == {500}
\* left edges of the boxes; the label of a box at 100 ends on the edge at 140
BoxXs == {100, 140}
\* y0 of the boxes: just off the options line's band, in it, on the line,
\* on the line above
BoxYs(oy) == {oy - 9, oy - 7, oy, oy + 14}
\* the raster under a box: dark, at the threshold, just above it
BoxPixels == {<<100>>, <<BRIGHTNESS_THRESHOLD>>,
              <<BRIGHTNESS_THRESHOLD, BRIGHTNESS_THRESHOLD + 1>>}
BoxLabels == {<<"B", "u", "y", "e", "r">>, <<"S", "e", "l", "l", "e", "r">>}

\* side of a checkbox image (10.5 within 1.5), in whole units
BoxSide == 10

Box(x, y, px, lab) ==
    [x0 |-> x, y0 |-> y, x1 |-> x + BoxSide, y1 |-> y + BoxSide,
     pixels |-> px, label |-> lab]

\* the glyphs of a box's label: from the box's right edge on, 6 units apart,
\* centred on the box's line
BoxLabelGlyphs(cb) ==
    [k \in 1..Len(cb.label) |->
        [text |-> cb.label[k], x0 |-> cb.x1 + 6 * (k - 1),
         y0 |-> cb.y0 + 1, y1 |-> cb.y0 + 9]]

\* page.chars: the labels of the page's boxes, box after box
RECURSIVE PageChars(_)
PageChars(cbs) ==
    IF cbs = <<>> THEN <<>> ELSE BoxLabelGlyphs(Head(cbs)) \o PageChars(Tail(cbs))

AddCheckbox ==
    /\ ~detected.done
    /\ Len(all_checkboxes) < MaxBoxes
    /\ \E x \in BoxXs, y \in BoxYs(options_y), px \in BoxPixels, lab \in BoxLabels :
          /\ \A k \in 1..Len(all_checkboxes) :
                ~(all_checkboxes[k].x0 = x /\ all_checkboxes[k].y0 = y)
          /\ all_checkboxes' = Append(all_checkboxes, Box(x, y, px, lab))
    /\ UNCHANGED <<options_y, detected, anchorVars, parseVars, cacheVars, batchVars, labelVars, runVars>>

Detect ==
    /\ ~detected.done
    /\ detected' = detect_checked_box_at_y(PageChars(all_checkboxes), options_y,
                                           all_checkboxes)
    /\ UNCHANGED <<options_y, all_checkboxes, anchorVars, parseVars, cacheVars, batchVars, labelVars, runVars>>

NextCheckbox == AddCheckbox \/ Detect

\* --- what the claims about the detection speak of
\* the candidates: boxes within 8 units of the options line or within 6 of
\* the line 14 units above it
IsCandidate(cb) ==
    \/ Abs(cb.y0 - options_y) < 8
    \/ Abs(cb.y0 - (options_y + 14)) < 6
Candidates ==
    {all_checkboxes[k] : k \in {j \in 1..Len(all_checkboxes) :
                                  IsCandidate(all_checkboxes[j])}}
\* mean brightness above the threshold; a at most as bright as b
MeanAbove(cb, n) == SumSeq(cb.pixels) > n * Len(cb.pixels)
NotBrighter(a, b) ==
    SumSeq(a.pixels) * Len(b.pixels) <= SumSeq(b.pixels) * Len(a.pixels)

\* C1: a checkbox whose mean brightness is above 150 is never the one
\* selected; when every candidate is above 150 the result is "n/a" and no
\* label is resolved; when some candidate is not above 150, the checkbox
\* whose label is resolved is a candidate no brighter than any other.
C1_ThresholdLaw ==
    detected.done =>
        /\ detected.resolved =>
              /\ detected.best \in Candidates
              /\ ~MeanAbove(detected.best, 150)
        /\ (\A cb \in Candidates : MeanAbove(cb, 150)) =>
              (~detected.resolved /\ detected.value = "n/a")
        /\ (\E cb \in Candidates : ~MeanAbove(cb, 150)) =>
              /\ detected.resolved
              /\ \A cb \in Candidates : NotBrighter(detected.best, cb)

\* two candidates, the first above the threshold and the second exactly at
\* it: the second one's label has been resolved
C1_Witness ==
    /\ detected.done /\ detected.resolved
    /\ Len(all_checkboxes) >= 2
    /\ IsCandidate(all_checkboxes[1]) /\ MeanAbove(all_checkboxes[1], 150)
    /\ detected.best = all_checkboxes[2]
    /\ SumSeq(detected.best.pixels) = 150 * Len(detected.best.pixels)
    /\ detected.value # "n/a"

\* the page's checkboxes right of the winner on its row
RightOnRow ==
    {all_checkboxes[k] : k \in {j \in 1..Len(all_checkboxes) :
        /\ all_checkboxes[j].x0 > detected.best.x1
        /\ Abs(all_checkboxes[j].y0 - detected.best.y0) < 3}}

\* C5: the label holds only glyphs whose left edge is strictly left of the
\* bound, and when the detection resolves the winner's label the bound is
\* the left edge of the nearest checkbox right of it on its row, so that no
\* glyph at or beyond that checkbox's left edge is in the label.
C5_LabelBoundary ==
    (detected.done /\ detected.resolved) =>
        /\ \A k \in 1..Len(detected.glyphs) : detected.glyphs[k].x0 < detected.bound
        /\ RightOnRow # {} =>
              /\ detected.bound \in {cb.x0 : cb \in RightOnRow}
              /\ \A cb \in RightOnRow : detected.bound <= cb.x0
        /\ \A cb \in RightOnRow : \A k \in 1..Len(detected.glyphs) :
              detected.glyphs[k].x0 < cb.x0

(***************************************************************************)
(* Text extractors and parse_contract.                                     *)
(*                                                                         *)
(* The document text is a sequence of segments, one per line or passage:   *)
(*   [k |-> "hdr"]     "Item No. Reference Event Date or Deadline"         *)
(*   [k |-> "end"]     "4. PURCHASE PRICE AND TERMS"                       *)
(*   [k |-> "row", num, ref, rest]   a line of the deadline table          *)
(*   [k |-> "h41"]     the heading "4.1. Price and Terms."                 *)
(*   [k |-> "price", amt]  "§ 4.1. Purchase Price $ <amt>"                 *)
(*   [k |-> "loan", amt]   "§ 4.5. New Loan $ <amt>"                       *)
(*   [k |-> "omit"]    "4.5. New Loan. (Omitted as inapplicable)"          *)
(*   [k |-> "fha"], [k |-> "va"]  "FHA insured", "VA guaranteed"           *)
(*   [k |-> "comm", pct]   "29.1. <pct>% of the Purchase Price"            *)
(*   [k |-> "filler"]  a passage longer than every search window           *)
(* A value of the record is Str(s), Num(n) (n in cents or in hundredths    *)
(* of a percent) or None.                                                  *)
(***************************************************************************)
ROW_OFFER_HEADER  == 2
ROW_BUYER         == 3
ROW_AGENT         == 4
ROW_PRICE         == 6
ROW_CONCESSION    == 7
ROW_EARNEST       == 11
ROW_LOAN_AMOUNT   == 12
ROW_LOAN_TYPE     == 15
ROW_LENDER        == 16
ROW_LENDER_LETTER == 17
ROW_TITLE_INS     == 19
ROW_OEC           == 21
ROW_CLOSING_SVC   == 23
ROW_RECORD_CHG    == 25
ROW_RESERVES      == 27
ROW_OTHER_FEES    == 29
ROW_LOCAL_TAX     == 31
ROW_SALES_TAX     == 33
ROW_PRIVATE_XFER  == 35
ROW_WATER_XFER    == 37
ROW_UTILITY_XFER  == 39
ROW_ASSOC_ASSESS  == 41
ROW_COMMISSION    == 43
ROW_NET_ESCAL     == 47
ROW_INCLUSIONS    == 85
ROW_EXCLUSIONS    == 86
ROW_ADD_PROV      == 88

\* a table with one row moved onto a formula row
DEADLINE_ITEM_TO_ROW_Shifted ==
    [item \in (1..15) \cup (22..27) \cup (30..43) |->
        IF item <= 15 THEN 48 + item
        ELSE IF item <= 27 THEN 42 + item
        ELSE 44 + item]
\* section 3.1 deadline table item number -> spreadsheet row
DEADLINE_ITEM_TO_ROW ==
    [item \in (1..15) \cup (22..27) \cup (30..43) |->
        IF item <= 15 THEN 48 + item
        ELSE IF item <= 27 THEN 42 + item
        ELSE 40 + item]

SKIP_ROWS ==
    {8, 9, 10, 13, 14, 20, 22, 24, 26, 28, 30, 32, 34, 36, 38, 40, 42,
     44, 45, 46, 87, 89}

MAX_ITEM     == 43
PRICE_WINDOW == 600
TABLE_WINDOW == 3000

Str(s) == [t |-> "str", s |-> s]
Num(n) == [t |-> "num", n |-> n]
None   == [t |-> "none"]

\* --- positions in the text
SegLen(seg) == IF seg.k = "filler" THEN TABLE_WINDOW ELSE 40
RECURSIVE Offset(_, _)
\* the character offset at which segment i starts
Offset(text, i) == IF i <= 1 THEN 0 ELSE Offset(text, i - 1) + SegLen(text[i - 1])

\* text.find(...) for a phrase that the segments of kinds ks hold, from
\* segment `from` on: the first such segment, 0 for -1
FindSeg(text, ks, from) ==
    LET hits == {i \in from..Len(text) : text[i].k \in ks}
    IN  IF hits = {} THEN 0 ELSE CHOOSE i \in hits : \A j \in hits : i <= j

\* --- amounts
RECURSIVE DigitsToInt(_, _)
\* int() of a string of digits
DigitsToInt(ds, acc) ==
    IF ds = <<>> THEN acc
    ELSE DigitsToInt(Tail(ds), 10 * acc +
             (CHOOSE v \in 0..9 : <<"0", "1", "2", "3", "4", "5", "6", "7", "8", "9">>[v + 1]
                                   = Head(ds)))

\* [\d,]+\.\d{2} matches the whole of s
IsAmount(s) ==
    /\ Len(s) >= 4
    /\ s[Len(s) - 2] = "."
    /\ s[Len(s) - 1] \in Digits /\ s[Len(s)] \in Digits
    /\ \A k \in 1..(Len(s) - 3) : s[k] \in Digits \cup {","}

\* float(m.group(1).replace(",", "")), in cents
AmountCents(s) ==
    DigitsToInt(SelectSeq(s, LAMBDA c : c \in Digits), 0)

\* the window text[idx:idx+600] after the first "4.1.": the segments that lie
\* in it whole.  The segment that holds "4.1." is cut at that place, so a
\* section symbol before it is outside the window.
Window41(text) ==
    LET idx == FindSeg(text, {"h41", "price"}, 1)
    IN  IF idx = 0 THEN <<>>
        ELSE SelectSeq([i \in 1..(Len(text) - idx) |->
                          [seg |-> text[idx + i],
                           stop |-> Offset(text, idx + i) + SegLen(text[idx + i])]],
                       LAMBDA e : e.stop <= Offset(text, idx) + PRICE_WINDOW)

\* re.search(r"§\s*<label>[^\d]+([\d,]+\.\d{2})", window): the amount of the
\* first line of kind k in the window that carries one, <<>> for no match
FirstAmount(window, k) ==
    LET hits == {i \in 1..Len(window) :
                    window[i].seg.k = k /\ IsAmount(window[i].seg.amt)}
    IN  IF hits = {} THEN <<>>
        ELSE window[CHOOSE i \in hits : \A j \in hits : i <= j].seg.amt

parse_price(text) ==
    IF FindSeg(text, {"h41", "price"}, 1) = 0 THEN None
    ELSE LET m == FirstAmount(Window41(text), "price")
         IN  IF m # <<>> THEN Num(AmountCents(m)) ELSE None

parse_earnest(text) ==
    IF FindSeg(text, {"h41", "price"}, 1) = 0 THEN None
    ELSE LET m == FirstAmount(Window41(text), "earnest")
         IN  IF m # <<>> THEN Num(AmountCents(m)) ELSE None

\* a variant that hands back None when no loan line matches
parse_new_loan_NoDefault(text) ==
    IF FindSeg(text, {"h41", "price"}, 1) = 0 THEN None
    ELSE LET m == FirstAmount(Window41(text), "loan")
         IN  IF m # <<>>
             THEN (IF AmountCents(m) > 0 THEN Num(AmountCents(m)) ELSE Num(0))
             ELSE None
parse_new_loan(text) ==
    IF FindSeg(text, {"h41", "price"}, 1) = 0 THEN None
    ELSE LET m == FirstAmount(Window41(text), "loan")
         IN  IF m # <<>>
             THEN (IF AmountCents(m) > 0 THEN Num(AmountCents(m)) ELSE Num(0))
             ELSE Num(0)

\* a variant without the test of the amount
parse_loan_type_OmittedOnly(text, loan_amount) ==
    IF FindSeg(text, {"omit"}, 1) # 0 THEN "Cash"
    ELSE IF FindSeg(text, {"fha"}, 1) # 0 THEN "FHA"
    ELSE IF FindSeg(text, {"va"}, 1) # 0 THEN "VA"
    ELSE "Conventional"
parse_loan_type(text, loan_amount) ==
    IF FindSeg(text, {"omit"}, 1) # 0 THEN "Cash"
    ELSE IF loan_amount = None \/ loan_amount.n = 0 THEN "Cash"
    ELSE IF FindSeg(text, {"fha"}, 1) # 0 THEN "FHA"
    ELSE IF FindSeg(text, {"va"}, 1) # 0 THEN "VA"
    ELSE "Conventional"

\* float(m.group(1)) / 100 for [\d\.]+, in hundredths of a percent; a string
\* with two periods or without a digit raises ValueError and gives None
parse_commission(text) ==
    LET i == FindSeg(text, {"comm"}, 1)
    IN  IF i = 0 THEN None
        ELSE LET pct == text[i].pct
                 dots == Len(SelectSeq(pct, LAMBDA c : c = "."))
                 ds == SelectSeq(pct, LAMBDA c : c \in Digits)
             IN  IF dots <= 1 /\ ds # <<>> THEN Num(DigitsToInt(ds, 0)) ELSE None

\* the extractors of free text: the phrase is in the text or it is not
parse_buyer(text) ==
    IF FindSeg(text, {"buyer"}, 1) # 0 THEN Str(<<"buyer name">>) ELSE Str(<<>>)
\* the second non-empty line of the first page
parse_agent(text) ==
    IF Len(text) > 1 THEN Str(<<text[2].k>>) ELSE Str(<<>>)
parse_concession(text) ==
    IF FindSeg(text, {"concession"}, 1) # 0 THEN Num(100) ELSE Num(0)
parse_inclusions(text) ==
    IF FindSeg(text, {"inclusions"}, 1) # 0 THEN Str(<<"inclusions">>) ELSE Str(<<>>)
parse_exclusions(text) ==
    IF FindSeg(text, {"exclusions"}, 1) # 0 THEN Str(<<"exclusions">>) ELSE Str(<<"n/a">>)
parse_additional_provisions(text) ==
    IF FindSeg(text, {"provisions"}, 1) # 0 THEN Str(<<"provisions">>) ELSE Str(<<"n/a">>)

\* --- the deadline table
Keywords == {"Deadline", "Date", "Time"}
Weekdays == {"MONDAY", "TUESDAY", "WEDNESDAY", "THURSDAY", "FRIDAY", "SATURDAY",
             "SUNDAY"}
UpperWord(w) == CASE w = "Monday" -> "MONDAY" [] w = "monday" -> "MONDAY"
                  [] w = "n/a" -> "N/A" [] OTHER -> w

\* the item test of parse_deadline_line
\* a variant that also turns item 0 away
ItemRejectedOrZero(item) == item > MAX_ITEM \/ item < 1
ItemRejected(item) == item > MAX_ITEM

\* the words after the last keyword, a leading "(...)" word and a trailing
\* weekday dropped
DeadlineValue(rest) ==
    LET ends == {i \in 1..Len(rest) : rest[i] \in Keywords}
        last == IF ends = {} THEN 0 ELSE CHOOSE i \in ends : \A j \in ends : j <= i
        v1 == SubSeq(rest, last + 1, Len(rest))
        v2 == IF v1 # <<>> /\ Head(v1) = "(MEC)" THEN Tail(v1) ELSE v1
        v3 == IF Len(v2) >= 2 /\ UpperWord(v2[Len(v2)]) \in Weekdays
              THEN SubSeq(v2, 1, Len(v2) - 1) ELSE v2
    IN  IF v3 = <<>> \/ (Len(v3) = 1 /\ UpperWord(v3[1]) = "N/A") THEN <<"n/a">> ELSE v3

\* parse_deadline_line(line): [ok, item, value]; the pattern wants a number,
\* a reference (section symbol and id, or n/a) and text after it
parse_deadline_line(line) ==
    IF ~( /\ line.k = "row"
          /\ line.num # <<>>
          /\ line.ref \in {"sect", "n/a"}
          /\ line.rest # <<>> )
    THEN [ok |-> FALSE, item |-> 0, value |-> <<>>]
    ELSE LET item == DigitsToInt(line.num, 0)
         IN  IF ItemRejected(item) THEN [ok |-> FALSE, item |-> 0, value |-> <<>>]
             ELSE [ok |-> TRUE, item |-> item, value |-> DeadlineValue(line.rest)]

RECURSIVE DeadlineRows(_, _, _, _)
\* results[item] = value for the lines i..last of the table, in order
DeadlineRows(text, i, last, results) ==
    IF i > last THEN results
    ELSE LET r == parse_deadline_line(text[i])
         IN  DeadlineRows(text, i + 1, last,
                 IF r.ok
                 THEN [it \in DOMAIN results \cup {r.item} |->
                          IF it = r.item THEN r.value ELSE results[it]]
                 ELSE results)

\* parse_deadlines(text): the table runs from the header to the end marker,
\* or over 3000 characters when the marker is missing
parse_deadlines(text) ==
    LET start == FindSeg(text, {"hdr"}, 1)
        stop  == IF start = 0 THEN 0 ELSE FindSeg(text, {"end"}, start)
        inwin == {i \in 1..Len(text) :
                     i >= start /\ Offset(text, i) < Offset(text, start) + TABLE_WINDOW}
        last  == IF stop # 0 THEN stop - 1
                 ELSE CHOOSE i \in inwin : \A j \in inwin : j <= i
    IN  IF start = 0 THEN << >> ELSE DeadlineRows(text, start, last, << >>)

\* --- parse_contract
\* dict.update
Update(a, b) ==
    [k \in DOMAIN a \cup DOMAIN b |-> IF k \in DOMAIN b THEN b[k] ELSE a[k]]

FEE_ROWS == {ROW_CLOSING_SVC, ROW_RECORD_CHG, ROW_RESERVES, ROW_OTHER_FEES,
             ROW_LOCAL_TAX, ROW_SALES_TAX, ROW_PRIVATE_XFER, ROW_WATER_XFER,
             ROW_UTILITY_XFER, ROW_ASSOC_ASSESS}

\* parse_contract: cb is what the checkbox queries of the document return
parse_contract(text, cb) ==
    LET deadlines   == parse_deadlines(text)
        loan_amount == parse_new_loan(text)
        loan_type   == parse_loan_type(text, loan_amount)
        is_cash     == (loan_type = "Cash")
        base ==
            (ROW_BUYER :> parse_buyer(text)) @@
            (ROW_AGENT :> parse_agent(text)) @@
            (ROW_PRICE :> parse_price(text)) @@
            (ROW_CONCESSION :> parse_concession(text)) @@
            (ROW_EARNEST :> parse_earnest(text)) @@
            (ROW_LOAN_AMOUNT :> loan_amount) @@
            (ROW_LOAN_TYPE :> Str(<<loan_type>>)) @@
            (ROW_LENDER :> IF is_cash THEN Str(<<"n/a">>) ELSE None) @@
            (ROW_LENDER_LETTER :> IF is_cash THEN Str(<<"n/a">>) ELSE None) @@
            (ROW_TITLE_INS :> Str(<<cb>>)) @@
            (ROW_OEC :> Str(<<cb>>)) @@
            (ROW_NET_ESCAL :> Str(<<"n/a">>)) @@
            (ROW_INCLUSIONS :> parse_inclusions(text)) @@
            (ROW_EXCLUSIONS :> parse_exclusions(text)) @@
            (ROW_ADD_PROV :> parse_additional_provisions(text))
        fee_sections == [r \in FEE_ROWS |-> Str(<<cb>>)]
        commission == parse_commission(text)
        with_fees == Update(base, fee_sections)
        with_comm == IF commission # None
                     THEN Update(with_fees, (ROW_COMMISSION :> commission))
                     ELSE with_fees
    IN  Update(with_comm,
               [row \in {DEADLINE_ITEM_TO_ROW[item] : item \in DOMAIN DEADLINE_ITEM_TO_ROW} |->
                   LET item == CHOOSE it \in DOMAIN DEADLINE_ITEM_TO_ROW :
                                   DEADLINE_ITEM_TO_ROW[it] = row
                   IN  IF item \in DOMAIN deadlines THEN Str(deadlines[item])
                       ELSE Str(<<"n/a">>)])

\* --- the documents parsed
MaxSegs == 3         \* segments of the document text

Row(num, ref, rest) == [k |-> "row", num |-> num, ref |-> ref, rest |-> rest]
TableRows ==
    { Row(<<"0">>, "sect", <<"Deadline", "March", "3">>),
      Row(<<"5">>, "sect", <<"Loan", "Deadline", "March", "3", "Monday">>),
      Row(<<"1", "6">>, "n/a", <<"Date", "N/A">>),
      Row(<<"4", "3">>, "sect", <<"Time", "(MEC)">>),
      Row(<<"4", "4">>, "sect", <<"Deadline", "May", "1">>),
      Row(<<"5">>, "other", <<"Deadline", "May", "1">>) }
Amount(k, amt) == [k |-> k, amt |-> amt]
Segments ==
    TableRows \cup
    { [k |-> "hdr"], [k |-> "end"], [k |-> "h41"], [k |-> "omit"], [k |-> "fha"],
      [k |-> "filler"],
      Amount("price", <<"4", "5", "0", ",", "0", "0", "0", ".", "0", "0">>),
      Amount("loan", <<"0", ".", "0", "0">>),
      Amount("loan", <<"2", "5", "0", ",", "0", "0", "0", ".", "0", "0">>),
      [k |-> "comm", pct |-> <<"2", ".", "5">>] }
CheckboxValues == {"Buyer Pays", "n/a"}

AppendSegment ==
    /\ ~parsed.done
    /\ Len(doc_text) < MaxSegs
    /\ \E seg \in Segments : doc_text' = Append(doc_text, seg)
    /\ UNCHANGED <<parsed, anchorVars, boxVars, cacheVars, batchVars, labelVars, runVars>>

ParseContract ==
    /\ ~parsed.done
    /\ \E cb \in CheckboxValues :
          parsed' = [done |-> TRUE,
                     deadlines |-> parse_deadlines(doc_text),
                     loan_amount |-> parse_new_loan(doc_text),
                     data |-> parse_contract(doc_text, cb)]
    /\ UNCHANGED <<doc_text, anchorVars, boxVars, cacheVars, batchVars, labelVars, runVars>>

NextParse == AppendSegment \/ ParseContract

\* --- what the claims about the record speak of
\* the loan section carries the omitted marker
LoanSectionOmitted == \E i \in 1..Len(doc_text) : doc_text[i].k = "omit"
NA == Str(<<"n/a">>)

SchemaItems == (1..15) \cup (22..27) \cup (30..43)
\* the rows of the worksheet that hold deadlines
DeadlineRowRange == 49..83

\* C4: parse_deadlines never emits an item number outside 1..43, and every
\* deadline field of the record comes from an item of the 35-item subset
\* (items 16-21 and 28-29 are dropped).
C4_DeadlineItems ==
    parsed.done =>
        /\ \A item \in DOMAIN parsed.deadlines : item \in 1..43
        /\ \A row \in DOMAIN parsed.data \cap DeadlineRowRange :
              \E item \in SchemaItems :
                 /\ DEADLINE_ITEM_TO_ROW[item] = row
                 /\ parsed.data[row] =
                       IF item \in DOMAIN parsed.deadlines
                       THEN Str(parsed.deadlines[item]) ELSE NA

\* C10: no key of the record parse_contract returns is one of the rows that
\* are never filled (SKIP_ROWS).
C10_NoSkippedKey ==
    parsed.done => DOMAIN parsed.data \cap SKIP_ROWS = {}

\* a record with a commission and a deadline read from the table
C10_Witness ==
    /\ parsed.done
    /\ ROW_COMMISSION \in DOMAIN parsed.data
    /\ \E row \in DOMAIN parsed.data \cap DeadlineRowRange : parsed.data[row] # NA

\* the rows of the scalar fields of the schema
ScalarRows ==
    {ROW_BUYER, ROW_AGENT, ROW_PRICE, ROW_CONCESSION, ROW_EARNEST,
     ROW_LOAN_AMOUNT, ROW_LOAN_TYPE, ROW_LENDER, ROW_LENDER_LETTER,
     ROW_TITLE_INS, ROW_OEC, ROW_NET_ESCAL, ROW_INCLUSIONS, ROW_EXCLUSIONS,
     ROW_ADD_PROV, ROW_COMMISSION} \cup FEE_ROWS

\* C11: every record parse_contract returns holds a key for each of the 35
\* deadline rows and for each scalar field of the schema, commission
\* included, also when the pattern of an extractor does not match.
C11_RecordComplete ==
    parsed.done =>
        /\ DeadlineRowRange \subseteq DOMAIN parsed.data
        /\ ScalarRows \subseteq DOMAIN parsed.data

(***************************************************************************)
(* The raster caches.                                                      *)
(*                                                                         *)
(* parse_contract makes a dict of its own and hands it to every checkbox   *)
(* query; detect_checked_box_at_y, get_fee_value and                       *)
(* parse_assoc_assessments also have a dict as the default value of their  *)
(* cache parameter, made once and kept for the life of the process.  A     *)
(* cache maps id(page) to the raster rendered; a raster is named by the    *)
(* parse, document and page it was rendered from.  The pages of an open    *)
(* document have distinct ids; ids are free again once it is closed.       *)
(***************************************************************************)
MaxParses == 2       \* calls of parse_contract in the process

Docs      == {"a.pdf", "b.pdf"}
Pages     == {1, 2}
Addresses == {1, 2, 3}

CacheNames == {"parse", "detect_default", "fee_default", "assoc_default"}
EmptyDict  == << >>

\* the cache argument at each call site of parse_contract: its own dict
TitleCacheArg == "parse"
OecCacheArg   == "parse"
\* a call that leaves the argument out and so gets the callee's default
FeeCacheArgOmitted == "fee_default"
FeeCacheArg   == "parse"
\* the same for the call of parse_assoc_assessments
AssocCacheArgOmitted == "assoc_default"
AssocCacheArg == "parse"
\* get_fee_value hands its cache parameter on to detect_checked_box_at_y
DetectCacheArg(fee_cache) == fee_cache

\* a variant of the lookup that never finds an entry
CacheHitNever(cache, pid) == FALSE
\* pid in render_cache
CacheHit(cache, pid) == pid \in DOMAIN cache

\* the lookup-or-render block, for the pages ps of the open document: the
\* cache afterwards
CacheAfter(cache, ps) ==
    Update(cache,
           [pid \in {page_ids[p] : p \in {q \in ps : ~CacheHit(cache, page_ids[q])}} |->
               [parse |-> cparse, doc |-> cdoc,
                page |-> CHOOSE p \in ps : page_ids[p] = pid]])

\* the pages ps are looked up in the cache named c, rendered when missing
Touch(c, ps) ==
    /\ caches' = [caches EXCEPT ![c] = CacheAfter(caches[c], ps)]
    /\ renders' = [p \in Pages |->
                     IF p \in ps /\ ~CacheHit(caches[c], page_ids[p])
                     THEN renders[p] + 1 ELSE renders[p]]
    /\ touches' = [p \in Pages |-> IF p \in ps THEN Min2(touches[p] + 1, 2)
                                   ELSE touches[p]]
    /\ reads' = {[page |-> p, raster |-> CacheAfter(caches[c], ps)[page_ids[p]]] :
                    p \in ps}

notCache == <<anchorVars, boxVars, parseVars, batchVars, labelVars, runVars>>

\* parse_contract is entered: the document is opened, render_cache = {}
StartParse ==
    /\ cstep = 0
    /\ cparse < MaxParses
    /\ cparse' = cparse + 1
    /\ \E d \in Docs : cdoc' = d
    /\ \E ids \in [Pages -> Addresses] :
          /\ \A p, q \in Pages : p # q => ids[p] # ids[q]
          /\ page_ids' = ids
    /\ caches' = [caches EXCEPT !["parse"] = EmptyDict]
    /\ renders' = [p \in Pages |-> 0]
    /\ touches' = [p \in Pages |-> 0]
    /\ reads' = {}
    /\ cstep' = 1
    /\ UNCHANGED <<prev, notCache>>

\* parse_title_insurance: every page that has the section and an anchor is
\* looked up; the loop goes on when the page has no checkbox in range
ParseTitleInsurance ==
    /\ cstep = 1
    /\ \E ps \in SUBSET Pages : Touch(TitleCacheArg, ps)
    /\ cstep' = 2
    /\ UNCHANGED <<cparse, cdoc, page_ids, prev, notCache>>

\* parse_oec: as parse_title_insurance
ParseOec ==
    /\ cstep = 2
    /\ \E ps \in SUBSET Pages : Touch(OecCacheArg, ps)
    /\ cstep' = 3
    /\ UNCHANGED <<cparse, cdoc, page_ids, prev, notCache>>

\* get_fee_value, nine times: the first page with an options line goes to
\* detect_checked_box_at_y, and its value is returned
GetFeeValue ==
    /\ cstep \in 3..11
    /\ \E ps \in {x \in SUBSET Pages : Cardinality(x) <= 1} :
          Touch(DetectCacheArg(FeeCacheArg), ps)
    /\ cstep' = cstep + 1
    /\ UNCHANGED <<cparse, cdoc, page_ids, prev, notCache>>

\* parse_assoc_assessments: the first page with checkboxes in the section
ParseAssocAssessments ==
    /\ cstep = 12
    /\ \E ps \in {x \in SUBSET Pages : Cardinality(x) <= 1} :
          Touch(AssocCacheArg, ps)
    /\ cstep' = 13
    /\ UNCHANGED <<cparse, cdoc, page_ids, prev, notCache>>

\* parse_contract is left, by its return or by an exception of a query: the
\* document is closed and the dict of the call is dropped
FinishParse ==
    /\ cstep \in 1..13
    /\ cstep' = 0
    /\ caches' = [caches EXCEPT !["parse"] = EmptyDict]
    /\ reads' = {}
    /\ prev' = [doc |-> cdoc, ids |-> {page_ids[p] : p \in {q \in Pages : touches[q] > 0}}]
    /\ UNCHANGED <<cparse, cdoc, page_ids, renders, touches, notCache>>

NextCache ==
    \/ StartParse \/ ParseTitleInsurance \/ ParseOec \/ GetFeeValue
    \/ ParseAssocAssessments \/ FinishParse

\* --- what the claims about the caches speak of
\* C6: within one parse_contract call, whatever pages the checkbox queries
\* reach, each page is rendered at most once: a page that has been looked up
\* was rendered exactly once, and every lookup gets the raster rendered from
\* that page in this call.
C6_RenderOnce ==
    /\ \A p \in Pages : renders[p] <= 1
    /\ \A p \in Pages : touches[p] > 0 => renders[p] = 1
    /\ \A r \in reads : r.raster.parse = cparse /\ r.raster.page = r.page

\* a page has been looked up by two queries and rendered once
C6_Witness ==
    /\ cstep > 3
    /\ \E p \in Pages : touches[p] = 2 /\ renders[p] = 1

\* the caches the queries of a parse look into
ConsultedCaches ==
    {TitleCacheArg, OecCacheArg, FeeCacheArg, DetectCacheArg(FeeCacheArg), AssocCacheArg}

\* C7: the raster cache is never shared across documents: every entry read
\* during a parse was created during that parse, from that document, and no
\* cache that the queries of a parse look into holds an entry created by
\* another parse (the dicts that are default values stay out of use).
C7_CacheScoped ==
    /\ \A r \in reads : r.raster.parse = cparse /\ r.raster.doc = cdoc
    /\ \A c \in ConsultedCaches : \A pid \in DOMAIN caches[c] :
          cstep # 0 => (caches[c][pid].parse = cparse /\ caches[c][pid].doc = cdoc)

\* the second parse, of another document than the first, renders a page
\* that has the id a page of the first document had when it was rendered
C7_Witness ==
    /\ cparse = 2 /\ cstep > 3
    /\ prev.doc # cdoc
    /\ \E r \in reads : page_ids[r.page] \in prev.ids

(***************************************************************************)
(* The batch run: main's loop and the worksheet.                           *)
(*                                                                         *)
(* A worksheet is the cells that hold something (value or style), the      *)
(* column widths that were set and the list of data validations.  A cell   *)
(* value is None, a string, a number or a formula; a formula is the        *)
(* sequence of its cell references.  A column letter is the column number. *)
(***************************************************************************)
LAST_ROW  == 103
SRC_COL   == 2
START_COL == 3

Formula(refs) == [t |-> "formula", refs |-> refs]
Ref(abs, col, row) == [abs |-> abs, col |-> col, row |-> row]
EmptyCell == [value |-> None, style |-> "default"]

\* ws.cell(row=row, column=col)
Cell(sheet, row, col) ==
    IF <<row, col>> \in DOMAIN sheet.cells THEN sheet.cells[<<row, col>>]
    ELSE EmptyCell

\* value not in (None, "")
NotEmptyValue(v) == v # None /\ v # Str(<< >>)

\* find_next_col: the first column from col on whose header cell is empty
RECURSIVE find_next_col(_, _)
find_next_col(sheet, col) ==
    IF NotEmptyValue(Cell(sheet, ROW_OFFER_HEADER, col).value)
    THEN find_next_col(sheet, col + 1)
    ELSE col

\* re.sub of the formula: a reference to the source column that has no $
\* before the letter gets the destination column
RewriteFormula(f, src_col, dst_col) ==
    Formula([k \in 1..Len(f.refs) |->
                IF ~f.refs[k].abs /\ f.refs[k].col = src_col
                THEN [f.refs[k] EXCEPT !.col = dst_col]
                ELSE f.refs[k]])

\* one row of copy_formatting: the destination cell afterwards
CopiedCell(sheet, row, src_col, dst_col) ==
    LET src == Cell(sheet, row, src_col)
        dst == Cell(sheet, row, dst_col)
    IN  [style |-> IF src.style # "default" THEN src.style ELSE dst.style,
         value |-> IF src.value.t = "formula"
                   THEN RewriteFormula(src.value, src_col, dst_col)
                   ELSE dst.value]

\* the row loop of copy_formatting, over the rows 1..n
CopyRows(sheet, src_col, dst_col, n) ==
    LET rows == {r \in 1..n : CopiedCell(sheet, r, src_col, dst_col)
                                 # Cell(sheet, r, dst_col)}
    IN  [sheet EXCEPT !.cells =
            Update(sheet.cells,
                   [rc \in {<<r, dst_col>> : r \in rows} |->
                       CopiedCell(sheet, rc[1], src_col, dst_col)])]

\* the width, which an unset column has by default
Width(sheet, col) ==
    IF col \in DOMAIN sheet.widths THEN sheet.widths[col] ELSE 13

\* the validations of the source column, made again for the destination
NewValidations(sheet, src_col, dst_col) ==
    LET hits == SelectSeq(sheet.dvs, LAMBDA dv : src_col \in dv.cols)
    IN  [k \in 1..Len(hits) |->
            [type |-> hits[k].type,
             cols |-> {IF c = src_col THEN dst_col ELSE c : c \in hits[k].cols}]]

\* copy_formatting
copy_formatting(sheet, src_col, dst_col) ==
    LET rowsDone == CopyRows(sheet, src_col, dst_col, LAST_ROW)
    IN  [rowsDone EXCEPT
            !.widths = Update(rowsDone.widths, (dst_col :> Width(sheet, src_col))),
            !.dvs = rowsDone.dvs \o NewValidations(sheet, src_col, dst_col)]

\* str(n) of a positive integer
RECURSIVE IntToDigits(_)
IntToDigits(n) ==
    LET d == <<"0", "1", "2", "3", "4", "5", "6", "7", "8", "9">>[(n % 10) + 1]
    IN  IF n < 10 THEN <<d>> ELSE Append(IntToDigits(n \div 10), d)

\* f"OFFER {offer_number}"
OfferHeader(offer_number) ==
    Str(<<"O", "F", "F", "E", "R", " ">> \o IntToDigits(offer_number))

\* the keys of the dict parse_contract returns, in insertion order
DataOrder ==
    <<ROW_BUYER, ROW_AGENT, ROW_PRICE, ROW_CONCESSION, ROW_EARNEST,
      ROW_LOAN_AMOUNT, ROW_LOAN_TYPE, ROW_LENDER, ROW_LENDER_LETTER,
      ROW_TITLE_INS, ROW_OEC, ROW_NET_ESCAL, ROW_INCLUSIONS, ROW_EXCLUSIONS,
      ROW_ADD_PROV,
      ROW_CLOSING_SVC, ROW_RECORD_CHG, ROW_RESERVES, ROW_OTHER_FEES,
      ROW_LOCAL_TAX, ROW_SALES_TAX, ROW_PRIVATE_XFER, ROW_WATER_XFER,
      ROW_UTILITY_XFER, ROW_ASSOC_ASSESS, ROW_COMMISSION>>
    \o [k \in 1..35 |-> 48 + k]

\* data.items(), as the rows
Items(data) == SelectSeq(DataOrder, LAMBDA r : r \in DOMAIN data)

\* a variant of write_offer that leaves the header cell alone
WriteHeaderSkipped(sheet, col, offer_number) == sheet
\* the header assignment of write_offer
WriteHeader(sheet, col, offer_number) ==
    [sheet EXCEPT !.cells =
        Update(sheet.cells,
               (<<ROW_OFFER_HEADER, col>> :>
                   [Cell(sheet, ROW_OFFER_HEADER, col) EXCEPT
                       !.value = OfferHeader(offer_number)]))]

\* the loop of write_offer over the first n items
WriteItems(sheet, col, data, n) ==
    LET rows == {r \in {Items(data)[k] : k \in 1..n} :
                    r \notin SKIP_ROWS /\ NotEmptyValue(data[r])}
    IN  [sheet EXCEPT !.cells =
            Update(sheet.cells,
                   [rc \in {<<r, col>> : r \in rows} |->
                       [Cell(sheet, rc[1], col) EXCEPT !.value = data[rc[1]]]])]

\* write_offer
write_offer(sheet, col, offer_number, data) ==
    WriteItems(WriteHeader(sheet, col, offer_number), col, data, Len(Items(data)))

\* errors.append((pdf_path.name, str(e)))
RecordError(errs, name, e) == Append(errs, [name |-> name, err |-> e])

\* --- the files of a run
\* what the documents hold: the text and what the checkbox queries return
DocFile(d) ==
    IF d = "a.pdf"
    THEN [text |-> <<Amount("price", <<"4", "5", "0", ",", "0", "0", "0", ".", "0", "0">>),
                     Amount("loan", <<"2", "5", "0", ",", "0", "0", "0", ".", "0", "0">>),
                     [k |-> "comm", pct |-> <<"2", ".", "5">>]>>,
          cb |-> "Buyer Pays"]
    ELSE [text |-> <<[k |-> "hdr"],
                     Row(<<"5">>, "sect", <<"Loan", "Deadline", "March", "3", "Monday">>),
                     [k |-> "omit"]>>,
          cb |-> "n/a"]

\* sorted(p.glob("*.pdf")), never empty
PdfLists == {<<"a.pdf">>, <<"b.pdf">>, <<"a.pdf", "b.pdf">>}

BlankSheet == [cells |-> << >>, widths |-> << >>, dvs |-> << >>]

\* the template: column B carries styles and formulas, among them one with
\* an absolute reference and one to another column
BaseTemplate ==
    [cells |->
        (<<ROW_OFFER_HEADER, SRC_COL>> :> [value |-> Str(<<"O", "f", "f", "e", "r">>), style |-> "head"]) @@
        (<<ROW_BUYER, SRC_COL>> :> [value |-> None, style |-> "text"]) @@
        (<<ROW_PRICE, SRC_COL>> :> [value |-> None, style |-> "money"]) @@
        (<<13, SRC_COL>> :> [value |-> Formula(<<Ref(FALSE, SRC_COL, ROW_PRICE),
                                                 Ref(FALSE, SRC_COL, ROW_LOAN_AMOUNT)>>),
                             style |-> "money"]) @@
        (<<44, SRC_COL>> :> [value |-> Formula(<<Ref(TRUE, SRC_COL, ROW_COMMISSION),
                                                 Ref(FALSE, 1, ROW_PRICE)>>),
                             style |-> "default"]),
     widths |-> (SRC_COL :> 18),
     dvs |-> <<[type |-> "list", cols |-> {SRC_COL}]>>]

\* templates: no offer yet; one offer column filled in before; a header
\* cell that holds the empty string
Templates ==
    { BaseTemplate,
      [BaseTemplate EXCEPT !.cells =
          Update(BaseTemplate.cells,
                 (<<ROW_OFFER_HEADER, START_COL>> :> [value |-> OfferHeader(1), style |-> "head"]) @@
                 (<<ROW_BUYER, START_COL>> :> [value |-> Str(<<"earlier buyer">>), style |-> "text"]))],
      [BaseTemplate EXCEPT !.cells =
          Update(BaseTemplate.cells,
                 (<<ROW_OFFER_HEADER, START_COL>> :> [value |-> Str(<< >>), style |-> "head"]))] }

notBatch == <<anchorVars, boxVars, parseVars, cacheVars, labelVars, runVars>>

\* prompt_folder, prompt_template, load_workbook, errors = []
LoadTemplate ==
    /\ bpc = "start"
    /\ \E l \in PdfLists : pdfs' = l
    /\ \E t \in Templates : ws' = t /\ template' = t /\ ws0' = t
    /\ errors' = << >>
    /\ log' = << >>
    /\ bi' = 1
    /\ bpc' = "loop"
    /\ UNCHANGED <<saved, notBatch>>

\* one pass of the loop in which nothing raises
ProcessDocument ==
    /\ bpc = "loop" /\ bi <= Len(pdfs)
    /\ LET data    == parse_contract(DocFile(pdfs[bi]).text, DocFile(pdfs[bi]).cb)
           dst_col == find_next_col(ws, START_COL)
       IN  /\ ws' = write_offer(copy_formatting(ws, SRC_COL, dst_col),
                                dst_col, dst_col - 2, data)
           /\ log' = Append(log, [name |-> pdfs[bi], ok |-> TRUE, col |-> dst_col])
    /\ ws0' = ws
    /\ bi' = bi + 1
    /\ UNCHANGED <<pdfs, bpc, errors, saved, template, notBatch>>

\* the except clause, after the try block got as far as sheet
Except(sheet, e) ==
    /\ ws' = sheet
    /\ errors' = RecordError(errors, pdfs[bi], e)
    /\ log' = Append(log, [name |-> pdfs[bi], ok |-> FALSE, col |-> 0])
    /\ ws0' = ws
    /\ bi' = bi + 1
    /\ UNCHANGED <<pdfs, bpc, saved, template, notBatch>>

\* parse_contract raises
RaiseInParseContract ==
    /\ bpc = "loop" /\ bi <= Len(pdfs)
    /\ Except(ws, "parse_contract")

\* find_next_col raises
RaiseInFindNextCol ==
    /\ bpc = "loop" /\ bi <= Len(pdfs)
    /\ Except(ws, "find_next_col")

\* copy_formatting raises: in the row loop after n rows, or after the loop
RaiseInCopyFormatting ==
    /\ bpc = "loop" /\ bi <= Len(pdfs)
    /\ LET dst_col == find_next_col(ws, START_COL)
       IN  \E n \in 0..LAST_ROW :
              Except(CopyRows(ws, SRC_COL, dst_col, n), "copy_formatting")

\* write_offer raises at the assignment of the item after the first n
RaiseInWriteOffer ==
    /\ bpc = "loop" /\ bi <= Len(pdfs)
    /\ LET data    == parse_contract(DocFile(pdfs[bi]).text, DocFile(pdfs[bi]).cb)
           dst_col == find_next_col(ws, START_COL)
           headed  == WriteHeader(copy_formatting(ws, SRC_COL, dst_col),
                                  dst_col, dst_col - 2)
       IN  \E n \in 0..(Len(Items(data)) - 1) :
              Except(WriteItems(headed, dst_col, data, n), "write_offer")

\* wb.save(output) and the report of the errors
SaveWorkbook ==
    /\ bpc = "loop" /\ bi > Len(pdfs)
    /\ saved' = TRUE
    /\ bpc' = "done"
    /\ UNCHANGED <<pdfs, bi, ws, errors, log, ws0, template, notBatch>>

NextBatch ==
    \/ LoadTemplate \/ ProcessDocument \/ RaiseInParseContract
    \/ RaiseInFindNextCol \/ RaiseInCopyFormatting \/ RaiseInWriteOffer
    \/ SaveWorkbook

\* --- what the claims about the batch run speak of
\* the last document attempted failed
LastFailed == log # << >> /\ ~log[Len(log)].ok

\* C8: when the processing of a document raises at any step of the try
\* block, the worksheet after the failure equals the worksheet before the
\* document was started: no header, formula, formatting or value of the
\* document is in it.
C8_NoPartialOutput == LastFailed => ws = ws0

\* the names of the documents of the log that failed, in order
FailedNames == [k \in 1..Len(SelectSeq(log, LAMBDA a : ~a.ok)) |->
                   SelectSeq(log, LAMBDA a : ~a.ok)[k].name]

\* what a worksheet holds in column col
ColumnCells(sheet, col) ==
    [rc \in {x \in DOMAIN sheet.cells : x[2] = col} |-> sheet.cells[rc]]

\* the column a document alone gives, on the template, at column col
AloneColumn(d, col) ==
    LET data == parse_contract(DocFile(d).text, DocFile(d).cb)
    IN  CHOOSE cells \in
            {ColumnCells(sheet, col) :
                sheet \in {write_offer(copy_formatting(template, SRC_COL, col),
                                       col, col - 2, data)}} : TRUE

\* the column a document that does not fail gets in the run without the
\* documents that fail: the first free column of the template, moved by the
\* documents written before it
ExpectedCol(k) ==
    find_next_col(template, START_COL)
        + Cardinality({j \in 1..(k - 1) : log[j].ok})

\* C9: main attempts each document exactly once in list order: the
\* documents attempted are a prefix of the list and the loop stands at the
\* next one, also after a failure; a failure does not alter the processing
\* of the other documents: a document that does not fail gets the column,
\* the header and the cells it gets in the run without the failed
\* documents; the workbook is saved only after the last document; and the
\* error list holds exactly the failed documents, in order, each with its
\* file name.
C9_FailureIsolation ==
    /\ bpc # "start" =>
          /\ bi \in 1..(Len(pdfs) + 1)
          /\ [k \in 1..Len(log) |-> log[k].name] = SubSeq(pdfs, 1, bi - 1)
          /\ [k \in 1..Len(errors) |-> errors[k].name] = FailedNames
          /\ \A k \in 1..Len(log) :
                log[k].ok =>
                   /\ log[k].col = ExpectedCol(k)
                   /\ ColumnCells(ws, log[k].col)
                         = AloneColumn(log[k].name, log[k].col)
    /\ saved <=> bpc = "done"
    /\ bpc = "done" => bi = Len(pdfs) + 1


\* the header cell of a column
HeaderOf(sheet, col) == Cell(sheet, ROW_OFFER_HEADER, col).value

\* the documents written so far keep their cells in this step
EarlierKept ==
    \A k \in 1..Len(log) :
        log[k].ok => ColumnCells(ws', log[k].col) = ColumnCells(ws, log[k].col)

\* the column of the document written last was the first one from column 3
\* on with an empty header, in the worksheet as it was before the document
ChosenFree ==
    (log # << >> /\ log[Len(log)].ok) =>
        /\ log[Len(log)].col >= START_COL
        /\ ~NotEmptyValue(HeaderOf(ws0, log[Len(log)].col))
        /\ \A c \in START_COL..(log[Len(log)].col - 1) : NotEmptyValue(HeaderOf(ws0, c))

\* C15: after any sequence of documents written and documents failed, every
\* document written has a column of its own, which was the first with an
\* empty header from column 3 on when it was chosen; its header is
\* "OFFER n" with n = column - 2; and no step of a later document changes
\* a cell of the column of a document written before.
C15_ColumnDiscipline ==
    /\ [](ChosenFree
           /\ \A k \in 1..Len(log) :
                 log[k].ok =>
                    /\ HeaderOf(ws, log[k].col) = OfferHeader(log[k].col - 2)
                    /\ \A j \in 1..Len(log) :
                          (log[j].ok /\ j # k) => log[j].col # log[k].col)
    /\ [][EarlierKept]_vars

\* on a template that has an offer column already, two documents have been
\* written, side by side
C15_Witness ==
    /\ bpc = "done"
    /\ Len(log) = 2 /\ log[1].ok /\ log[2].ok
    /\ log[1].col = START_COL + 1 /\ log[2].col = START_COL + 2

(***************************************************************************)
(* The dropdown mapping of a label.                                        *)
(*                                                                         *)
(* The text right of the checked box, as label_after_checkbox gives it     *)
(* (at most 15 glyphs, stripped), goes through label_to_dropdown, and      *)
(* detect_checked_box_at_y turns a None into "n/a".                        *)
(***************************************************************************)
MaxWords == 3        \* words of the text right of the box

Chars(w) ==
    CASE w = "Buyer"    -> <<"B", "u", "y", "e", "r">>
      [] w = "SELLER"   -> <<"S", "E", "L", "L", "E", "R">>
      [] w = "One"      -> <<"O", "n", "e">>
      [] w = "one-half" -> <<"o", "n", "e", "-", "h", "a", "l", "f">>
      [] w = "N/A"      -> <<"N", "/", "A">>
      [] w = "n"        -> <<"n">>
      [] w = "("        -> <<"(">>
      [] w = " "        -> <<" ">>
LabelWords == {"Buyer", "SELLER", "One", "one-half", "N/A", "n", "(", " "}

\* value if value else "n/a"
DropdownOrNA(value) == IF value = "None" THEN "n/a" ELSE value

notLabel == <<anchorVars, boxVars, parseVars, cacheVars, batchVars, runVars>>

\* one more word right of the box
AppendWord ==
    /\ ~dropdown.done
    /\ label_words < MaxWords
    /\ \E w \in LabelWords : label_text' = label_text \o Chars(w)
    /\ label_words' = label_words + 1
    /\ UNCHANGED <<dropdown, notLabel>>

\* the last three lines of detect_checked_box_at_y
MapLabel ==
    /\ ~dropdown.done
    /\ LET raw_label == Strip(PySlice(label_text, 0, LABEL_MAX_CHARS))
       IN  dropdown' = [done |-> TRUE, raw_label |-> raw_label,
                        mapped |-> label_to_dropdown(raw_label),
                        value |-> DropdownOrNA(label_to_dropdown(raw_label))]
    /\ UNCHANGED <<label_text, label_words, notLabel>>

NextLabel == AppendWord \/ MapLabel

\* --- what the claim about the mapping speaks of
DropdownValues == {"Buyer Pays", "Seller Pays", "Split 50/50", "n/a"}
\* the label starts with the prefix, whatever the case, after leading blanks
HasPrefix(label, prefix) == StartsWith(LStrip(Upper(label)), prefix)
P_BUYER  == <<"B", "U", "Y", "E", "R">>
P_SELLER == <<"S", "E", "L", "L", "E", "R">>
P_ONE    == <<"O", "N", "E">>
P_NA     == <<"N", "/", "A">>

\* C12: the value returned for a checked box is one of Buyer Pays, Seller
\* Pays, Split 50/50 and n/a; the label maps by its prefix only, whatever
\* the case (BUYER, SELLER, ONE-HALF or ONE, N/A), and a label that starts
\* with none of the prefixes maps to n/a.
C12_DropdownMapping ==
    dropdown.done =>
        /\ dropdown.value \in DropdownValues
        /\ HasPrefix(dropdown.raw_label, P_BUYER) => dropdown.value = "Buyer Pays"
        /\ HasPrefix(dropdown.raw_label, P_SELLER) => dropdown.value = "Seller Pays"
        /\ HasPrefix(dropdown.raw_label, P_ONE) => dropdown.value = "Split 50/50"
        /\ HasPrefix(dropdown.raw_label, P_NA) => dropdown.value = "n/a"
        /\ (\A p \in {P_BUYER, P_SELLER, P_ONE, P_NA} : ~HasPrefix(dropdown.raw_label, p))
              => dropdown.value = "n/a"

(***************************************************************************)
(* Repeated parses in one process.                                         *)
(*                                                                         *)
(* A call of parse_contract is one step here: its twelve checkbox queries  *)
(* run one after the other against the dicts of the process.  What a query *)
(* reads is the content of the raster it gets, and the content of a        *)
(* rendered raster is given by the document and the page.  The pages a     *)
(* query reaches are given by the document.                                *)
(***************************************************************************)
MaxRuns == 3         \* calls of parse_contract in the process

QUERIES == 12

\* page.to_image(...).original: the content of the raster
PageRaster(d, p) == [doc |-> d, page |-> p]

\* the pages on which a query of the document gets to its raster
QueryPages(d, q) ==
    IF d = "a.pdf"
    THEN (CASE q = 1 -> {1} [] q = 2 -> {1} [] q \in 3..11 -> {2} [] OTHER -> {2})
    ELSE (CASE q = 1 -> {1, 2} [] q = 2 -> {} [] q \in 3..11 -> {1} [] OTHER -> {1})

\* the dict a query of parse_contract works on
QueryCache(q) ==
    CASE q = 1 -> TitleCacheArg
      [] q = 2 -> OecCacheArg
      [] q \in 3..11 -> DetectCacheArg(FeeCacheArg)
      [] OTHER -> AssocCacheArg

\* pil_img, scale_x, scale_y = render_cache[pid], after the lookup-or-render
RasterRead(cache, pid, d, p) ==
    IF CacheHit(cache, pid) THEN cache[pid] ELSE PageRaster(d, p)

\* the dicts after query q of document d, whose pages have the ids given
QueryDicts(dicts, q, ids, d) ==
    LET c    == QueryCache(q)
        miss == {p \in QueryPages(d, q) : ~CacheHit(dicts[c], ids[p])}
    IN  [dicts EXCEPT ![c] =
            Update(dicts[c],
                   [pid \in {ids[p] : p \in miss} |->
                       PageRaster(d, CHOOSE p \in miss : ids[p] = pid)])]

\* what query q reads: page by page, the content of the raster
QueryReads(dicts, q, ids, d) ==
    {<<p, RasterRead(dicts[QueryCache(q)], ids[p], d, p)>> : p \in QueryPages(d, q)}

\* the queries q..last in sequence: the dicts afterwards and what was read
RECURSIVE RunQueries(_, _, _, _, _, _)
RunQueries(dicts, q, last, ids, d, fields) ==
    IF q > last THEN [dicts |-> dicts, fields |-> fields]
    ELSE RunQueries(QueryDicts(dicts, q, ids, d), q + 1, last, ids, d,
                    Append(fields, QueryReads(dicts, q, ids, d)))

\* the checkbox state a raster shows is that of the document it was made of
CheckboxShown(fields) ==
    LET seen == {k \in 1..Len(fields) : fields[k] # {}}
    IN  IF seen = {} THEN "n/a"
        ELSE LET k == CHOOSE i \in seen : \A j \in seen : i <= j
                 r == CHOOSE x \in fields[k] : \A y \in fields[k] : x[1] <= y[1]
             IN  DocFile(r[2].doc).cb

\* the FieldRecord of a call: the dict, and what the queries have read
FieldRecord(d, fields) ==
    [data |-> parse_contract(DocFile(d).text, CheckboxShown(fields)),
     fields |-> fields]

notRun == <<anchorVars, boxVars, parseVars, cacheVars, batchVars, labelVars>>

\* parse_contract is called on a document and returns
RunParseContract ==
    /\ Len(runs) < MaxRuns
    /\ \E d \in Docs, ids \in [Pages -> Addresses] :
          /\ \A p, q \in Pages : p # q => ids[p] # ids[q]
          /\ LET out == RunQueries([live_dicts EXCEPT !["parse"] = EmptyDict],
                                   1, QUERIES, ids, d, << >>)
             IN  /\ live_dicts' = [out.dicts EXCEPT !["parse"] = EmptyDict]
                 /\ records' = records \cup {[doc |-> d, record |-> FieldRecord(d, out.fields)]}
          /\ runs' = Append(runs, [doc |-> d, ids |-> {ids[p] : p \in Pages}, ok |-> TRUE])
    /\ UNCHANGED notRun

\* parse_contract is called on a document and a query raises
RunParseContractRaises ==
    /\ Len(runs) < MaxRuns
    /\ \E d \in Docs, ids \in [Pages -> Addresses], last \in 0..(QUERIES - 1) :
          /\ \A p, q \in Pages : p # q => ids[p] # ids[q]
          /\ LET out == RunQueries([live_dicts EXCEPT !["parse"] = EmptyDict],
                                   1, last, ids, d, << >>)
             IN  live_dicts' = [out.dicts EXCEPT !["parse"] = EmptyDict]
          /\ runs' = Append(runs, [doc |-> d, ids |-> {ids[p] : p \in Pages}, ok |-> FALSE])
    /\ UNCHANGED <<records, notRun>>

NextRun == RunParseContract \/ RunParseContractRaises

\* C13: two calls of parse_contract on the same unchanged document return
\* equal FieldRecords, also when other documents are parsed in between in
\* the same process and their pages had the same ids.
C13_Deterministic ==
    \A x, y \in records : x.doc = y.doc => x.record = y.record

\* a document was parsed, then another one whose pages had ids of the
\* first, then the first again on ids of the second
C13_Witness ==
    /\ Len(runs) = 3
    /\ runs[1].ok /\ runs[2].ok /\ runs[3].ok
    /\ runs[1].doc = runs[3].doc /\ runs[2].doc # runs[1].doc
    /\ runs[1].ids \cap runs[2].ids # {}
    /\ runs[2].ids = runs[3].ids
    /\ Cardinality(records) = 2

(***************************************************************************)
(* Initial state and specifications.                                       *)
(***************************************************************************)
Init ==
    /\ chars = <<>>
    /\ anchor = NoAnchor
    /\ options_y \in OptionsYs
    /\ all_checkboxes = <<>>
    /\ detected = [done |-> FALSE]
    /\ doc_text = <<>>
    /\ parsed = [done |-> FALSE]
    /\ cparse = 0
    /\ cdoc = "a.pdf"
    /\ cstep = 0
    /\ page_ids = [p \in Pages |-> p]
    /\ caches = [c \in CacheNames |-> EmptyDict]
    /\ renders = [p \in Pages |-> 0]
    /\ touches = [p \in Pages |-> 0]
    /\ reads = {}
    /\ prev = [doc |-> "a.pdf", ids |-> {}]
    /\ pdfs = << >>
    /\ bi = 1
    /\ bpc = "start"
    /\ ws = BlankSheet
    /\ errors = << >>
    /\ saved = FALSE
    /\ log = << >>
    /\ ws0 = BlankSheet
    /\ template = BlankSheet
    /\ label_text = << >>
    /\ label_words = 0
    /\ dropdown = [done |-> FALSE]
    /\ live_dicts = [c \in CacheNames |-> EmptyDict]
    /\ records = {}
    /\ runs = << >>

SpecAnchor == Init /\ [][NextAnchor]_vars
SpecCheckbox == Init /\ [][NextCheckbox]_vars
SpecParse == Init /\ [][NextParse]_vars
SpecCache == Init /\ [][NextCache]_vars
SpecBatch == Init /\ [][NextBatch]_vars
SpecLabel == Init /\ [][NextLabel]_vars
SpecRun == Init /\ [][NextRun]_vars

=============================================================================
